---- MODULE Spec2Model ----
(***************************************************************************)
(* main_pano_converter: conversion of spherical panoramas to rectilinear   *)
(* (pinhole) images.  The module follows main() of                         *)
(* src/openMVG_Samples/image_spherical_to_pinholes/main_pano_converter.cpp *)
(* statement by statement; pc names the statement about to run.            *)
(*                                                                         *)
(* File names and paths are sequences of one-character strings.  Lengths   *)
(* in pixels that the code holds in doubles are held in thousandths        *)
(* (focal) or tenths (the border sample position j) of a pixel.            *)
(***************************************************************************)
EXTENDS Integers, Sequences, FiniteSets, TLC

\* ---------------------------------------------------------------- bounds
MaxFiles == 2
MaxSplit == 2

\* ------------------------------------------------------ program constants
DefaultResolution == 1024
DefaultSplit == 5
DefaultFov == 60
step == 10

\* ----------------------------------------------------------------- inputs
ResolutionInputs == {-1, 0, 5, 7}
SplitInputs == (-1) .. MaxSplit
FovInputs == {-60, 60, 90, 180}
DirInInputs == {<<>>, <<"i">>}
DirOutInputs == {<<>>, <<"o">>}
JpgExt == <<".", "j", "p", "g">>
FilePool == {<<"a">> \o JpgExt, <<"a", "_", "0">> \o JpgExt, <<"b">> \o JpgExt}

\* what folder_wildcard(s_directory_in, "*.jpg", false, true) can return:
\* the names of distinct files of one folder, in the folder's order
FileLists ==
  {s \in UNION {[1..n -> FilePool] : n \in 0..MaxFiles} :
     \A a, b \in DOMAIN s : a # b => s[a] # s[b]}

VARIABLES
  pc,               \* the statement of main() about to run
  cmdline,          \* "none": argc == 1; "throw": cmd.process threw; "ok"
  s_directory_in, s_directory_out,
  image_resolution, nb_split, fov,
  demo_mode,        \* cmd.used('D')
  cerr,             \* messages written to std::cerr, in order
  exit_code,        \* "running", "EXIT_SUCCESS" or "EXIT_FAILURE"
  vec_filenames,
  focal,            \* thousandths of a pixel
  focal_calls,      \* arguments of the calls of FocalFromPinholeHeight
  pinhole_camera,
  camera_rotations, \* rotation angles about Y, thousandths of a degree
  i,                \* counter of the rotation loop
  cam,              \* position of the demo loop in camera_rotations
  j10,              \* the border loops' counter j, tenths of a pixel
  last_sample_in,   \* whether j <= image_resolution holds after step additions
  svgStream,        \* primitives drawn so far
  it,               \* position of filename_it in vec_filenames
  spherical_image,  \* "none", "ok" (decoded) or "zero" (decoded, zero area)
  decoded,          \* the calls of ReadImage so far, with their outcome
  sampled,          \* files whose pixels the resampler has walked
  i_rot,            \* counter of the save loop
  outputs,          \* paths handed to WriteImage, in order
  focal_file,       \* values streamed to focal.txt
  svg_file,         \* documents streamed to test.svg
  write_failures    \* writes that failed at the file system or the encoder

vars == <<pc, cmdline, s_directory_in, s_directory_out, image_resolution,
          nb_split, fov, demo_mode, cerr, exit_code, vec_filenames, focal,
          focal_calls, pinhole_camera, camera_rotations, i, cam, j10,
          last_sample_in, svgStream, it, spherical_image, decoded, sampled,
          i_rot, outputs, focal_file, svg_file, write_failures>>

config == <<cmdline, s_directory_in, s_directory_out, image_resolution,
            nb_split, fov, demo_mode>>
geometry == <<focal, focal_calls, pinhole_camera, camera_rotations, i>>
demo == <<cam, j10, last_sample_in, svgStream, svg_file>>
conversion == <<it, spherical_image, decoded, sampled, i_rot, outputs,
                focal_file>>

\* ---------------------------------------------------------------- helpers
Msg(k, f) == [kind |-> k, file |-> f]

Kinds(log) == {log[n].kind : n \in DOMAIN log}

DigitChars == <<"0", "1", "2", "3", "4", "5", "6", "7", "8", "9">>

\* operator<< of an int on an ostream
RECURSIVE Decimal(_)
Decimal(n) ==
  IF n < 10 THEN <<DigitChars[n + 1]>>
  ELSE Decimal(n \div 10) \o <<DigitChars[(n % 10) + 1]>>

\* stlplus::basename_part: the file name without its extension
RECURSIVE BasenamePart(_)
BasenamePart(f) ==
  IF f = <<>> THEN <<>>
  ELSE IF f[Len(f)] = "." THEN SubSeq(f, 1, Len(f) - 1)
  ELSE IF \E n \in DOMAIN f : f[n] = "." THEN BasenamePart(SubSeq(f, 1, Len(f) - 1))
  ELSE f

\* stlplus::create_filespec(folder, name)
CreateFilespec(folder, name) == folder \o <<"/">> \o name

\* OutputName with the camera index left out of the name
OutputName_noIndex(dir, file, n) ==
  dir \o <<"/">> \o BasenamePart(file) \o JpgExt

\* os << s_directory_out << "/" << basename << "_" << i_rot << ".jpg"
OutputName(dir, file, n) ==
  dir \o <<"/">> \o BasenamePart(file) \o <<"_">> \o Decimal(n) \o JpgExt

\* openMVG::D2R, thousandths of a radian
D2R(deg) ==
  IF deg >= 0 THEN (deg * 31416) \div 1800 ELSE 0 - (((0 - deg) * 31416) \div 1800)

\* 1000 / tan(theta / 2) for the angles D2R yields on FovInputs
CotHalf(theta) ==
  CASE theta = 1047 -> 1732
    [] theta = 1570 -> 1000
    [] theta = 3141 -> 0
    [] theta = 0 - 1047 -> 0 - 1732

\* spherical::FocalFromPinholeHeight: (h / 2) / tan(thetaMax / 2)
FocalFromPinholeHeight(h, thetaMax) == (h * 500 * CotHalf(thetaMax)) \div 1000

\* spherical::ComputeCubicCameraIntrinsics: the camera of a cube face, whose
\* field of view is 90 degrees
ComputeCubicCameraIntrinsics(size) ==
  [w |-> size, h |-> size,
   focal |-> FocalFromPinholeHeight(size, D2R(90)),
   ppx |-> size * 500, ppy |-> size * 500]

\* RotationAroundY(alpha * n) with alpha = 2 pi / nb_split
RotationAroundY(n, split) == (360000 * n) \div split

\* spherical::SphericalToPinholes: TRUE iff the pixel loop is entered
SphericalToPinholes(image) == image # "zero"

\* j <= image_resolution, for j the sum of k additions of image_resolution/10
BorderLoopCond ==
  \/ j10 < 10 * image_resolution
  \/ j10 = 10 * image_resolution /\ last_sample_in

Circles(svg) == svg.green + svg.yellow

\* circles of one colour are counted up to DrawCap, which stands for
\* "DrawCap or more": more than any rig of MaxSplit cameras draws
DrawCap == 2 * (step + 1) * (MaxSplit + 1)

Counted(n) == IF n < DrawCap THEN n ELSE DrawCap

EmptySvg == [lines |-> 0, green |-> 0, yellow |-> 0]

\* ------------------------------------------------------------------- Init
Init ==
  /\ pc = "parse"
  /\ \/ /\ cmdline = "none"
        /\ s_directory_in = <<>>
        /\ s_directory_out = <<>>
        /\ image_resolution = DefaultResolution
        /\ nb_split = DefaultSplit
        /\ fov = DefaultFov
        /\ demo_mode = FALSE
     \/ /\ cmdline \in {"ok", "throw"}
        /\ s_directory_in \in DirInInputs
        /\ s_directory_out \in DirOutInputs
        /\ image_resolution \in ResolutionInputs
        /\ nb_split \in SplitInputs
        /\ fov \in FovInputs
        /\ demo_mode \in BOOLEAN
  /\ cerr = <<>>
  /\ exit_code = "running"
  /\ vec_filenames = <<>>
  /\ focal = 0
  /\ focal_calls = <<>>
  /\ pinhole_camera = [w |-> 0, h |-> 0, focal |-> 0, ppx |-> 0, ppy |-> 0]
  /\ camera_rotations = <<>>
  /\ i = 0
  /\ cam = 1
  /\ j10 = 0
  /\ last_sample_in = TRUE
  /\ svgStream = EmptySvg
  /\ it = 1
  /\ spherical_image = "none"
  /\ decoded = <<>>
  /\ sampled = <<>>
  /\ i_rot = 0
  /\ outputs = <<>>
  /\ focal_file = <<>>
  /\ svg_file = <<>>
  /\ write_failures = 0

\* ---------------------------------------------------------------- actions
\* report on std::cerr and return EXIT_FAILURE
Fail(kind) ==
  /\ cerr' = Append(cerr, Msg(kind, <<>>))
  /\ exit_code' = "EXIT_FAILURE"
  /\ pc' = "done"

\* lines 47-61: a failed parse prints the usage and falls through
ParseCmdLine ==
  /\ pc = "parse"
  /\ cerr' = IF cmdline = "ok" THEN cerr ELSE Append(cerr, Msg("usage", <<>>))
  /\ pc' = "check_resolution"
  /\ UNCHANGED <<config, exit_code, vec_filenames, geometry, demo, conversion,
                 write_failures>>

\* lines 65-69
CheckResolution ==
  /\ pc = "check_resolution"
  /\ IF image_resolution < 0
       THEN Fail("image_resolution")
       ELSE pc' = "check_split" /\ UNCHANGED <<cerr, exit_code>>
  /\ UNCHANGED <<config, vec_filenames, geometry, demo, conversion,
                 write_failures>>

\* lines 70-74
CheckSplit ==
  /\ pc = "check_split"
  /\ IF nb_split < 0
       THEN Fail("nb_split")
       ELSE pc' = "check_dirs" /\ UNCHANGED <<cerr, exit_code>>
  /\ UNCHANGED <<config, vec_filenames, geometry, demo, conversion,
                 write_failures>>

\* lines 75-79
CheckDirs ==
  /\ pc = "check_dirs"
  /\ IF s_directory_in = <<>> \/ s_directory_out = <<>>
       THEN Fail("dirs")
       ELSE pc' = "out_dir" /\ UNCHANGED <<cerr, exit_code>>
  /\ UNCHANGED <<config, vec_filenames, geometry, demo, conversion,
                 write_failures>>

\* lines 81-88
EnsureOutDir ==
  /\ pc = "out_dir"
  /\ \E is_folder \in BOOLEAN, folder_create \in BOOLEAN :
       IF ~is_folder /\ ~folder_create
         THEN Fail("folder_create")
         ELSE pc' = "list" /\ UNCHANGED <<cerr, exit_code>>
  /\ UNCHANGED <<config, vec_filenames, geometry, demo, conversion,
                 write_failures>>

\* ListImages without the test of an empty list
ListImages_unchecked ==
  /\ pc = "list"
  /\ \E files \in FileLists : vec_filenames' = files
  /\ pc' = "intrinsics"
  /\ UNCHANGED <<config, cerr, exit_code, geometry, demo, conversion,
                 write_failures>>

\* lines 91-98
ListImages ==
  /\ pc = "list"
  /\ \E files \in FileLists :
       /\ vec_filenames' = files
       /\ IF files = <<>>
            THEN Fail("no_image")
            ELSE pc' = "intrinsics" /\ UNCHANGED <<cerr, exit_code>>
  /\ UNCHANGED <<config, geometry, demo, conversion, write_failures>>

\* lines 112-114
ComputeIntrinsics ==
  /\ pc = "intrinsics"
  /\ focal' = FocalFromPinholeHeight(image_resolution, D2R(fov))
  /\ focal_calls' = Append(focal_calls, <<image_resolution, fov>>)
  /\ pinhole_camera' = ComputeCubicCameraIntrinsics(image_resolution)
  /\ i' = 0
  /\ pc' = "rotations"
  /\ UNCHANGED <<config, cerr, exit_code, vec_filenames, camera_rotations,
                 demo, conversion, write_failures>>

\* lines 116-121, one iteration
GenerateRotation ==
  /\ pc = "rotations"
  /\ i < nb_split
  /\ camera_rotations' = Append(camera_rotations, RotationAroundY(i, nb_split))
  /\ i' = i + 1
  /\ UNCHANGED <<pc, config, cerr, exit_code, vec_filenames, focal,
                 focal_calls, pinhole_camera, demo, conversion, write_failures>>

\* line 123: the mode is chosen when the rotation loop ends
SelectMode ==
  /\ pc = "rotations"
  /\ ~(i < nb_split)
  /\ pc' = IF demo_mode THEN "demo_begin" ELSE "read"
  /\ UNCHANGED <<config, cerr, exit_code, vec_filenames, geometry, demo,
                 conversion, write_failures>>

\* lines 125-131: the canvas and the two reference lines
DemoBegin ==
  /\ pc = "demo_begin"
  /\ svgStream' = [svgStream EXCEPT !.lines = @ + 2]
  /\ \E b \in BOOLEAN :
       /\ (image_resolution % 5 = 0) => b
       /\ last_sample_in' = b
  /\ cam' = 1
  /\ pc' = "demo_cam"
  /\ UNCHANGED <<config, cerr, exit_code, vec_filenames, geometry, j10,
                 svg_file, conversion, write_failures>>

\* line 135: next camera of the rig, or the end of the loop
DemoNextCamera ==
  /\ pc = "demo_cam"
  /\ IF cam <= Len(camera_rotations)
       THEN j10' = 0 /\ pc' = "demo_vertical"
       ELSE j10' = j10 /\ pc' = "demo_write"
  /\ UNCHANGED <<config, cerr, exit_code, vec_filenames, geometry, cam,
                 last_sample_in, svgStream, svg_file, conversion,
                 write_failures>>

\* line 143: the test of the vertical border loop
DemoVerticalTest ==
  /\ pc = "demo_vertical"
  /\ IF BorderLoopCond
       THEN j10' = j10 /\ pc' = "demo_vertical_body"
       ELSE j10' = 0 /\ pc' = "demo_horizontal"
  /\ UNCHANGED <<config, cerr, exit_code, vec_filenames, geometry, cam,
                 last_sample_in, svgStream, svg_file, conversion,
                 write_failures>>

\* DemoVertical marking the left border only
DemoVertical_oneBorder ==
  /\ pc = "demo_vertical_body"
  /\ svgStream' = [svgStream EXCEPT !.green = Counted(@ + 1)]
  /\ j10' = j10 + image_resolution
  /\ pc' = "demo_vertical"
  /\ UNCHANGED <<config, cerr, exit_code, vec_filenames, geometry, cam,
                 last_sample_in, svg_file, conversion, write_failures>>

\* lines 144-151: one sample of the vertical borders, a green circle on the
\* left and one on the right border, and j += image_resolution/step
DemoVertical ==
  /\ pc = "demo_vertical_body"
  /\ svgStream' = [svgStream EXCEPT !.green = Counted(@ + 2)]
  /\ j10' = j10 + image_resolution
  /\ pc' = "demo_vertical"
  /\ UNCHANGED <<config, cerr, exit_code, vec_filenames, geometry, cam,
                 last_sample_in, svg_file, conversion, write_failures>>

\* line 153: the test of the horizontal border loop
DemoHorizontalTest ==
  /\ pc = "demo_horizontal"
  /\ IF BorderLoopCond
       THEN cam' = cam /\ pc' = "demo_horizontal_body"
       ELSE cam' = cam + 1 /\ pc' = "demo_cam"
  /\ UNCHANGED <<config, cerr, exit_code, vec_filenames, geometry, j10,
                 last_sample_in, svgStream, svg_file, conversion,
                 write_failures>>

\* lines 154-160: one sample of the horizontal borders, a yellow circle on
\* the top and one on the bottom border, and j += image_resolution/step
DemoHorizontal ==
  /\ pc = "demo_horizontal_body"
  /\ svgStream' = [svgStream EXCEPT !.yellow = Counted(@ + 2)]
  /\ j10' = j10 + image_resolution
  /\ pc' = "demo_horizontal"
  /\ UNCHANGED <<config, cerr, exit_code, vec_filenames, geometry, cam,
                 last_sample_in, svg_file, conversion, write_failures>>

\* lines 163-166: the stream's state is not looked at
DemoWriteSvg ==
  /\ pc = "demo_write"
  /\ svg_file' = Append(svg_file, svgStream)
  /\ \E ok \in BOOLEAN :
       write_failures' = IF ok THEN write_failures ELSE write_failures + 1
  /\ exit_code' = "EXIT_SUCCESS"
  /\ pc' = "done"
  /\ UNCHANGED <<config, cerr, vec_filenames, geometry, cam, j10,
                 last_sample_in, svgStream, conversion>>

\* ReadImageFailed returning from main instead of continuing
ReadImageFailed_abort ==
  /\ pc = "read"
  /\ it <= Len(vec_filenames)
  /\ decoded' = Append(decoded, [file |-> vec_filenames[it], result |-> "fail"])
  /\ cerr' = Append(cerr, Msg("read", CreateFilespec(s_directory_in, vec_filenames[it])))
  /\ exit_code' = "EXIT_FAILURE"
  /\ pc' = "done"
  /\ UNCHANGED <<config, vec_filenames, geometry, demo, it, spherical_image,
                 sampled, i_rot, outputs, focal_file, write_failures>>

\* lines 173-177: ReadImage fails; report and continue with the next file
ReadImageFailed ==
  /\ pc = "read"
  /\ it <= Len(vec_filenames)
  /\ decoded' = Append(decoded, [file |-> vec_filenames[it], result |-> "fail"])
  /\ cerr' = Append(cerr, Msg("read", CreateFilespec(s_directory_in, vec_filenames[it])))
  /\ it' = it + 1
  /\ UNCHANGED <<pc, config, exit_code, vec_filenames, geometry, demo,
                 spherical_image, sampled, i_rot, outputs, focal_file,
                 write_failures>>

\* line 173: ReadImage succeeds
ReadImageOk ==
  /\ pc = "read"
  /\ it <= Len(vec_filenames)
  /\ \E r \in {"ok", "zero"} :
       /\ decoded' = Append(decoded, [file |-> vec_filenames[it], result |-> r])
       /\ spherical_image' = r
  /\ pc' = "resample"
  /\ UNCHANGED <<config, cerr, exit_code, vec_filenames, geometry, demo, it,
                 sampled, i_rot, outputs, focal_file, write_failures>>

\* lines 179-189: the resampler's result is not looked at
Resample ==
  /\ pc = "resample"
  /\ sampled' = IF SphericalToPinholes(spherical_image)
                  THEN Append(sampled, vec_filenames[it]) ELSE sampled
  /\ i_rot' = 0
  /\ pc' = "save"
  /\ UNCHANGED <<config, cerr, exit_code, vec_filenames, geometry, demo, it,
                 spherical_image, decoded, outputs, focal_file, write_failures>>

\* lines 192-202, one iteration: WriteImage's result is not looked at
SaveImage ==
  /\ pc = "save"
  /\ i_rot < Len(camera_rotations)
  /\ outputs' = Append(outputs, OutputName(s_directory_out, vec_filenames[it], i_rot))
  /\ \E ok \in BOOLEAN :
       write_failures' = IF ok THEN write_failures ELSE write_failures + 1
  /\ i_rot' = i_rot + 1
  /\ UNCHANGED <<pc, config, cerr, exit_code, vec_filenames, geometry, demo,
                 it, spherical_image, decoded, sampled, focal_file>>

\* lines 192, 203: the save loop ends, on to the next file
NextImage ==
  /\ pc = "save"
  /\ ~(i_rot < Len(camera_rotations))
  /\ it' = it + 1
  /\ spherical_image' = "none"
  /\ pc' = "read"
  /\ UNCHANGED <<config, cerr, exit_code, vec_filenames, geometry, demo,
                 decoded, sampled, i_rot, outputs, focal_file, write_failures>>

\* lines 205-209: the stream's state is not looked at
WriteFocal ==
  /\ pc = "read"
  /\ ~(it <= Len(vec_filenames))
  /\ focal_file' = Append(focal_file, focal)
  /\ \E ok \in BOOLEAN :
       write_failures' = IF ok THEN write_failures ELSE write_failures + 1
  /\ exit_code' = "EXIT_SUCCESS"
  /\ pc' = "done"
  /\ UNCHANGED <<config, cerr, vec_filenames, geometry, demo, it,
                 spherical_image, decoded, sampled, i_rot, outputs>>

Next ==
  \/ ParseCmdLine
  \/ CheckResolution
  \/ CheckSplit
  \/ CheckDirs
  \/ EnsureOutDir
  \/ ListImages
  \/ ComputeIntrinsics
  \/ GenerateRotation
  \/ SelectMode
  \/ DemoBegin
  \/ DemoNextCamera
  \/ DemoVerticalTest
  \/ DemoVertical
  \/ DemoHorizontalTest
  \/ DemoHorizontal
  \/ DemoWriteSvg
  \/ ReadImageFailed
  \/ ReadImageOk
  \/ Resample
  \/ SaveImage
  \/ NextImage
  \/ WriteFocal

Spec == Init /\ [][Next]_vars

\* main() is one thread of control: a statement that can run does run
FairSpec == Spec /\ WF_vars(Next)

\* ------------------------------------------------------------ properties
Range(s) == {s[n] : n \in DOMAIN s}

NoArtifact == outputs = <<>> /\ focal_file = <<>> /\ svg_file = <<>>

NothingProcessed ==
  camera_rotations = <<>> /\ focal_calls = <<>> /\ decoded = <<>> /\ NoArtifact

LastKind == IF cerr = <<>> THEN "" ELSE cerr[Len(cerr)].kind

Distinct(s) == \A a, b \in DOMAIN s : a # b => s[a] # s[b]

\* {output_dir}/{source_basename}_{camera_index}.jpg, spelled out
ExpectedName(file, n) ==
  s_directory_out \o <<"/">> \o BasenamePart(file) \o <<"_">> \o Decimal(n) \o JpgExt

\* the names of the nb_split images of one source image, by increasing index
ExpectedFor(file) ==
  IF nb_split > 0 THEN [n \in 1..nb_split |-> ExpectedName(file, n - 1)] ELSE <<>>

\* the output names of the first k calls of ReadImage, in order
RECURSIVE ExpectedOutputs(_)
ExpectedOutputs(k) ==
  IF k = 0 THEN <<>>
  ELSE ExpectedOutputs(k - 1) \o
       (IF decoded[k].result = "fail" THEN <<>> ELSE ExpectedFor(decoded[k].file))

\* a configuration the interface admits
ValidConfig ==
  image_resolution > 0 /\ nb_split > 0 /\ 0 < fov /\ fov < 180

\* a conversion run that got past the start-up checks and has returned
ConversionDone == pc = "done" /\ ~demo_mode /\ focal_calls # <<>>

\* C1: a run with image_resolution <= 0 or nb_split <= 0 (its fov being an
\* admitted one) exits with the failure code, before any rotation is
\* generated, any source image is decoded or any output artifact is written.
C1_NonPositiveRejected ==
  ((image_resolution <= 0 \/ nb_split <= 0) /\ 0 < fov /\ fov < 180) =>
    /\ camera_rotations = <<>>
    /\ decoded = <<>>
    /\ NoArtifact
    /\ (pc = "done" => exit_code = "EXIT_FAILURE")

\* C2: in conversion mode every source image that fails to decode is reported
\* on the error stream and gets no output image, the images are taken in list
\* order with none left out, every image that decodes gets its output images,
\* and the run returns EXIT_SUCCESS whatever the number of failed decodes.
C2_DecodeFailureSkipped ==
  /\ Len(decoded) <= Len(vec_filenames)
  /\ \A n \in DOMAIN decoded :
       /\ decoded[n].file = vec_filenames[n]
       /\ decoded[n].result = "fail" =>
            /\ Msg("read", CreateFilespec(s_directory_in, decoded[n].file)) \in Range(cerr)
            /\ \A c \in 0..(MaxSplit + 1) :
                 ExpectedName(decoded[n].file, c) \notin Range(outputs)
  /\ ConversionDone =>
       /\ exit_code = "EXIT_SUCCESS"
       /\ Len(decoded) = Len(vec_filenames)
       /\ \A n \in DOMAIN decoded :
            decoded[n].result # "fail" =>
              \A c \in 0..(nb_split - 1) :
                ExpectedName(decoded[n].file, c) \in Range(outputs)

C2_Witness ==
  /\ ConversionDone
  /\ exit_code = "EXIT_SUCCESS"
  /\ Len(decoded) = 2
  /\ decoded[1].result = "fail"
  /\ decoded[2].result = "ok"
  /\ nb_split > 0
  /\ outputs # <<>>

\* C3: in a conversion run that completes, every decoded source image has
\* exactly nb_split output images written, by increasing camera index
\* 0..nb_split-1 and named {source_basename}_{index}; no two (image, index)
\* pairs share a file name; the focal sidecar is written exactly once, after
\* all the images.
C3_OutputsPerImage ==
  /\ Distinct(outputs)
  /\ Len(focal_file) <= 1
  /\ focal_file # <<>> => pc = "done" /\ Len(decoded) = Len(vec_filenames)
  /\ pc \in {"read", "done"} => outputs = ExpectedOutputs(Len(decoded))
  /\ (ConversionDone /\ exit_code = "EXIT_SUCCESS") =>
       /\ Len(focal_file) = 1
       /\ Len(decoded) = Len(vec_filenames)
       /\ outputs = ExpectedOutputs(Len(vec_filenames))

C3_Witness ==
  /\ ConversionDone
  /\ exit_code = "EXIT_SUCCESS"
  /\ nb_split = 2
  /\ Len(decoded) = 2
  /\ decoded[1].result = "ok"
  /\ decoded[2].result = "ok"
  /\ Len(outputs) = 4
  /\ Len(focal_file) = 1

\* C4: a run that fails because input_dir or output_dir is empty, the output
\* directory cannot be created or no source image is found has reported the
\* error on the error stream and has decoded nothing and written nothing; the
\* checks all come before the first rotation and the intrinsics.
C4_StartupFailuresClean ==
  /\ (pc = "done" /\ exit_code = "EXIT_FAILURE") =>
       /\ LastKind \in {"image_resolution", "nb_split", "dirs", "folder_create", "no_image"}
       /\ NothingProcessed
  /\ (s_directory_in = <<>> \/ s_directory_out = <<>>) =>
       /\ NothingProcessed
       /\ vec_filenames = <<>>
       /\ pc = "done" =>
            /\ exit_code = "EXIT_FAILURE"
            /\ LastKind \in {"image_resolution", "nb_split", "dirs"}
  /\ (pc = "done" /\ LastKind = "no_image") => vec_filenames = <<>>
  /\ ~NothingProcessed =>
       /\ vec_filenames # <<>>
       /\ Kinds(cerr) \subseteq {"usage", "read"}

C4_Witness ==
  /\ pc = "done"
  /\ exit_code = "EXIT_FAILURE"
  /\ LastKind = "no_image"
  /\ s_directory_in # <<>>
  /\ s_directory_out # <<>>
  /\ nb_split > 0

\* the samples each border loop takes
BorderSamples == IF last_sample_in THEN step + 1 ELSE step

\* C5 as stated: the document holds the two reference lines and exactly
\* nb_split x 2 x (step+1) border markers.
C5_TwoMarkersPerCamera ==
  \A n \in DOMAIN svg_file :
    /\ svg_file[n].lines = 2
    /\ Circles(svg_file[n]) = nb_split * 2 * (step + 1)

\* C5 amended: the document holds the two reference lines and exactly
\* nb_split x 4 x s border markers, half of them vertical-border and half
\* horizontal-border ones, where s is the number of samples of a border loop:
\* step+1 when the sum of step additions of image_resolution/step does not
\* exceed image_resolution (always so for a multiple of 5), else step.
C5_FourMarkersPerSample ==
  \A n \in DOMAIN svg_file :
    /\ svg_file[n].lines = 2
    /\ svg_file[n].green = nb_split * 2 * BorderSamples
    /\ svg_file[n].yellow = nb_split * 2 * BorderSamples
    /\ image_resolution % 5 = 0 => Circles(svg_file[n]) = nb_split * 4 * (step + 1)

C5_Witness ==
  /\ pc = "done"
  /\ Len(svg_file) = 1
  /\ nb_split = 2
  /\ image_resolution = 5
  /\ Circles(svg_file[1]) = 88

\* C6: a run with fov <= 0 or fov >= 180 (its image_resolution and nb_split
\* being admitted ones) is rejected before the intrinsics are computed and
\* writes no output artifact.
C6_FovValidated ==
  (image_resolution > 0 /\ nb_split > 0) =>
    /\ \A n \in DOMAIN focal_calls :
         0 < focal_calls[n][2] /\ focal_calls[n][2] < 180
    /\ (fov <= 0 \/ fov >= 180) => NoArtifact

\* C7: in a run with an admitted configuration, the pinhole camera handed to
\* the resampler and to the frustum drawing has the focal length derived from
\* (image_resolution, fov), the value that is written to the focal sidecar.
C7_PinholeUsesFov ==
  ValidConfig =>
    /\ focal_calls # <<>> =>
         pinhole_camera.focal = FocalFromPinholeHeight(image_resolution, D2R(fov))
    /\ \A n \in DOMAIN focal_file : focal_file[n] = pinhole_camera.focal

\* C8: in a run with an admitted configuration, a source image that decodes
\* with zero area is never resampled; a failure is reported for it, no output
\* is written for it, and the run goes on with the next image.
C8_ZeroAreaSignalled ==
  \A n \in DOMAIN decoded :
    (ValidConfig /\ decoded[n].result = "zero" /\ (n < Len(decoded) \/ pc = "done")) =>
      /\ decoded[n].file \notin Range(sampled)
      /\ \E m \in DOMAIN cerr :
           cerr[m].file = CreateFilespec(s_directory_in, decoded[n].file)
      /\ \A c \in 0..(MaxSplit + 1) :
           ExpectedName(decoded[n].file, c) \notin Range(outputs)

WriteErrorKinds == {"write_image", "write_focal", "write_svg"}

\* C9: in a run with an admitted configuration, every failed write of an
\* output image, of the focal sidecar or of the SVG document has a message on
\* the error stream.
C9_WriteFailuresReported ==
  ValidConfig =>
    write_failures <= Cardinality({m \in DOMAIN cerr : cerr[m].kind \in WriteErrorKinds})

\* C10: a demo run decodes nothing and writes neither output image nor focal
\* sidecar, a conversion run writes no SVG document, no run writes artifacts of
\* both modes, and a demo run that passed the start-up checks goes on to write
\* the SVG document and return EXIT_SUCCESS.
C10_ModesExclusive ==
  /\ [](demo_mode => (decoded = <<>> /\ outputs = <<>> /\ focal_file = <<>>))
  /\ [](~demo_mode => svg_file = <<>>)
  /\ [](svg_file = <<>> \/ (outputs = <<>> /\ focal_file = <<>>))
  /\ ((demo_mode /\ pc = "intrinsics")
        ~> (pc = "done" /\ exit_code = "EXIT_SUCCESS" /\ Len(svg_file) = 1))

====
